---- MODULE Spec2Model ----
(***************************************************************************)
(* Model of the MQTT-to-MariaDB ingestion service: the message handler of  *)
(* mqtt.service.ts, the storage functions of db.service.ts and the tables  *)
(* that initDatabase creates.                                              *)
(***************************************************************************)
EXTENDS Integers, Sequences, FiniteSets, Bags, TLC

VARIABLES
    digital_inputs,   \* rows of table digital_inputs
    analyzer_data,    \* rows of table analyzer_data
    analog_inputs,    \* rows of table analog_inputs
    device_data,      \* rows of table device_data
    schema,           \* the tables that exist in the database
    now,              \* CURRENT_TIMESTAMP of the database server (seconds)
    held,             \* pooled connections currently acquired
    tasks,            \* bag of storage operations suspended at an await
    ev,               \* the event produced by the last step (log, outcome)
    client,           \* the MQTT client: connection state and subscriptions
    broker,           \* the MQTT broker: reachable or not
    process           \* the Node.js process: running, or exited with a code

vars == <<digital_inputs, analyzer_data, analog_inputs, device_data, schema,
          now, held, tasks, ev, client, broker, process>>

\* what the storage steps leave alone
transport == <<client, broker>>

tables == <<digital_inputs, analyzer_data, analog_inputs, device_data>>

\* the four tables of the application
TableNames == {"digital_inputs", "analyzer_data", "analog_inputs", "device_data"}

----------------------------------------------------------------------------
(* Bounds of the model *)

RouteTime == 1        \* the clock stops ticking here (routing specification)
RouteRows == 2        \* messages stop arriving once the database holds this many rows
MaxTasks == 2         \* operations in flight in the ingestion specifications
MaxValuesLen == 12    \* longest VALUES array of the padding specification
PadTasks == 2         \* operations in flight in the padding specification
PadRows == 2          \* row cap of the padding specification
PadTime == 1          \* last clock value of the padding specification
StoreTasks == 2       \* operations in flight in the storage specification
StoreRows == 2        \* row cap of the storage specification
StoreTime == 1        \* last clock value of the storage specification
StartTasks == 2       \* operations in flight in the startup specification
StartRows == 2        \* row cap of the startup specification
StartTime == 1        \* last clock value of the startup specification
DeviceTasks == 2      \* operations in flight in the device-data specification
DeviceRows == 2       \* row cap of the device-data specification
DeviceTime == 1       \* last clock value of the device-data specification
PoolTasks == 6        \* operations in flight in the pool specification
PoolRows == 2         \* row cap of the pool specification
PoolTime == 1         \* last clock value of the pool specification
AggTasks == 1         \* operations in flight in the aggregation specification
AggRows == 5          \* row cap of the aggregation specification
AggTime == 1          \* last clock value of the aggregation specification
StatusTasks == 1      \* operations in flight in the device-status specification
StatusRows == 3       \* row cap of the device-status specification
StatusTime == 1       \* last clock value of the device-status specification
ReadTasks == 1        \* operations in flight in the read specification
ReadRows == 3         \* row cap of the read specification
ReadTime == 1         \* last clock value of the read specification
MaxOutages == 2       \* times the broker becomes unreachable (transport specification)

(* Program constants *)

connectionLimit == 5
DigitalWidth == 9
AnalogWidth == 2
reconnectPeriod == 1000

----------------------------------------------------------------------------
(* JavaScript values: undefined is None, a defined value v is Some(v) *)

None == <<>>
Some(v) == <<v>>
IsSome(o) == Len(o) = 1

\* values[i] with a 0-based JavaScript index: undefined past the end
At(values, i) == IF i < Len(values) THEN Some(values[i + 1]) ELSE None

\* x || 0 on a number or undefined
OrZero(o) == IF o = None THEN 0 ELSE IF o[1] = 0 THEN 0 ELSE o[1]

DigitChars == <<"0", "1", "2", "3", "4", "5", "6", "7", "8", "9">>

\* Number.prototype.toString for a natural number
RECURSIVE NumToString(_)
NumToString(n) ==
    IF n < 10 THEN DigitChars[n + 1]
    ELSE NumToString(n \div 10) \o DigitChars[(n % 10) + 1]

----------------------------------------------------------------------------
(* Topics: a topic string is its '/'-separated segments, a segment is a    *)
(* sequence of tokens that contain no '/' and do not overlap a kind name.  *)

MQTT_TOPICS ==
    [DIGITAL_INPUTS |-> << <<"CDC">>, <<"+">>, <<"DIGITAL_INPUTS">> >>,
     ANALYSER_DATA  |-> << <<"CDC">>, <<"+">>, <<"ANALYSER_DATA">> >>,
     ANALOG_INPUT   |-> << <<"CDC">>, <<"+">>, <<"ANALOG_INPUT">> >>,
     DEVICE_DATA    |-> << <<"CDC">>, <<"+">>, <<"DEVICE_DATA">> >>]

\* topic.includes('/' + name): some segment after the first starts with name
includes(topic, name) ==
    \E i \in 2..Len(topic) : Len(topic[i]) > 0 /\ topic[i][1] = name

\* new RegExp('^' + pattern.replace('+', '[^/]+') + '$').test(topic): the
\* segments agree one by one, a '+' segment standing for one non-empty one
matchesPattern(pattern, topic) ==
    /\ Len(topic) = Len(pattern)
    /\ \A i \in 1..Len(pattern) :
          IF pattern[i] = <<"+">> THEN Len(topic[i]) > 0 ELSE topic[i] = pattern[i]

\* Object.entries(topicConfig): the patterns in mapping order
topicConfig == <<"DIGITAL_INPUTS", "ANALYSER_DATA", "ANALOG_INPUT", "DEVICE_DATA">>

\* getTopicConfig(topic): the first pattern in mapping order that matches
getTopicConfig(topic) ==
    IF \E i \in DOMAIN topicConfig : matchesPattern(MQTT_TOPICS[topicConfig[i]], topic)
    THEN Some(topicConfig[CHOOSE i \in DOMAIN topicConfig :
                 /\ matchesPattern(MQTT_TOPICS[topicConfig[i]], topic)
                 /\ \A j \in 1..(i - 1) :
                       ~matchesPattern(MQTT_TOPICS[topicConfig[j]], topic)])
    ELSE None

----------------------------------------------------------------------------
(* Payloads: the text of a message, by what JSON.parse makes of it *)

\* JSON.parse(messageStr): throws SyntaxError on text that is not JSON
JSONparse(payload) ==
    IF payload.syntax = "invalid"
    THEN [threw |-> TRUE, value |-> payload]
    ELSE [threw |-> FALSE, value |-> payload]

\* !data.ID : ID is undefined or the empty string
MissingID(data) == data.ID = None \/ data.ID[1] = ""

----------------------------------------------------------------------------
(* mqtt.service.ts: the client *)

\* connectMqtt: mqtt.connect(url, {clean: true, reconnectPeriod: 1000}) and
\* the five listeners; the client starts connecting
connectMqtt ==
    [status |-> "connecting", connected |-> FALSE, reconnecting |-> FALSE,
     listeners |-> {"connect", "error", "message", "reconnect", "close"},
     requested |-> {}, subscribed |-> {}, elapsed |-> 0]

\* subscribeToTopics that asks for the first pattern only
subscribeToTopics_firstOnly(c) ==
    IF ~c.connected THEN {} ELSE {"DIGITAL_INPUTS"}

\* subscribeToTopics: nothing when the client is not connected, else one
\* client.subscribe per entry of MQTT_TOPICS
subscribeToTopics(c) ==
    IF ~c.connected THEN {} ELSE DOMAIN MQTT_TOPICS

\* emitter.emit('error', err): the listener runs, and without a listener
\* the error is thrown and reaches uncaughtException
emitError(p, listeners) ==
    IF "error" \in listeners THEN p
    ELSE [p EXCEPT !.status = "exited", !.code = 1]

----------------------------------------------------------------------------
(* mqtt.service.ts: the message handler *)

\* the try block of handleMessage, up to the handler it awaits
handleMessageTry(topic, payload) ==
    LET parsed == JSONparse(payload)
        data == parsed.value
    IN  IF parsed.threw
        THEN [threw |-> TRUE, log |-> <<"debug">>, handler |-> "none"]
        ELSE IF data.syntax = "null"
        THEN \* data.ID on null throws TypeError
             [threw |-> TRUE, log |-> <<"debug">>, handler |-> "none"]
        ELSE IF MissingID(data)
        THEN [threw |-> FALSE, log |-> <<"debug", "warn">>, handler |-> "none"]
        ELSE IF includes(topic, "DIGITAL_INPUTS")
        THEN [threw |-> FALSE, log |-> <<"debug">>, handler |-> "handleDigitalInputs"]
        ELSE IF includes(topic, "ANALYSER_DATA")
        THEN [threw |-> FALSE, log |-> <<"debug">>, handler |-> "handleAnalyzerData"]
        ELSE IF includes(topic, "ANALOG_INPUT")
        THEN [threw |-> FALSE, log |-> <<"debug">>, handler |-> "handleAnalogInput"]
        ELSE IF includes(topic, "DEVICE_DATA")
        THEN [threw |-> FALSE, log |-> <<"debug">>, handler |-> "handleDeviceData"]
        ELSE [threw |-> FALSE, log |-> <<"debug", "warn">>, handler |-> "none"]

\* handleMessage whose catch block lets the error escape
handleMessage_uncaught(topic, payload) ==
    LET r == handleMessageTry(topic, payload)
    IN  IF r.threw
        THEN [log |-> r.log, handler |-> "none", settled |-> "rejected"]
        ELSE [log |-> r.log, handler |-> r.handler,
              settled |-> IF r.handler = "none" THEN "resolved" ELSE "pending"]

\* handleMessage with its catch block: what the call has done when it
\* returns or suspends
handleMessage(topic, payload) ==
    LET r == handleMessageTry(topic, payload)
    IN  IF r.threw
        THEN [log |-> r.log \o <<"error", "debug">>, handler |-> "none",
              settled |-> "resolved"]
        ELSE [log |-> r.log, handler |-> r.handler,
              settled |-> IF r.handler = "none" THEN "resolved" ELSE "pending"]

\* the storage call each topic handler makes
HandlerInsert ==
    [handleDigitalInputs |-> "insertDigitalInputs",
     handleAnalyzerData  |-> "insertAnalyzerData",
     handleAnalogInput   |-> "insertAnalogInputs",
     handleDeviceData    |-> "insertDeviceData"]

\* a storage operation about to await pool.getConnection()
NewTask(op, caller, deviceId, values, rnum, ip) ==
    [op |-> op, caller |-> caller, deviceId |-> deviceId, values |-> values,
     rnum |-> rnum, ip |-> ip, pc |-> "acquire", stmt |-> 1]

\* handleDigitalInputs .. handleDeviceData up to the await of the insert
handlerCall(handler, data) ==
    IF handler = "handleDeviceData"
    THEN NewTask(HandlerInsert[handler], "mqtt", data.ID[1], None, data.RNUM, data.IP)
    ELSE NewTask(HandlerInsert[handler], "mqtt", data.ID[1], data.VALUES, None, None)

\* a catch block that calls the storage function again
afterCatch_retry(bag, t) ==
    (bag (-) SetToBag({t})) (+) SetToBag({[t EXCEPT !.pc = "acquire"]})

\* after the catch block of a handler or controller the call is over: the
\* operation is not attempted again
afterCatch(bag, t) == bag (-) SetToBag({t})

\* a catch block that logs and throws the error on
handlerSettle_rethrow(threw) ==
    IF threw
    THEN [log |-> <<"error", "debug">>, settled |-> "rejected"]
    ELSE [log |-> <<"info">>, settled |-> "resolved"]

\* the catch block of a topic handler: the error is logged and swallowed
handlerSettle(threw) ==
    IF threw
    THEN [log |-> <<"error", "debug">>, settled |-> "resolved"]
    ELSE [log |-> <<"info">>, settled |-> "resolved"]

\* the storage functions that return the array of rows of their query
ReturnsArray == {"getAllDigitalInputs", "getAllAnalyzerData", "getAllAnalogInputs",
                 "getAllDeviceData", "getLatestDigitalInputs"}

\* the controllers that test their data with if (!data)
LatestControllers == {"getLatestDigitalInputs", "getLatestAnalyzerData",
                      "getLatestAnalogInputs", "getLatestDeviceData"}

\* !data: null is falsy, an array is truthy also when it is empty
notData(op, data) == op \notin ReturnsArray /\ data = None

\* res.status(...) of a controller: 500 from its catch block, 404 from the
\* if (!data) branch of the getLatest controllers, 200 otherwise
controllerStatus(op, threw, data) ==
    IF threw THEN 500
    ELSE IF op \in LatestControllers /\ notData(op, data) THEN 404
    ELSE 200

\* a controller of data.controller.ts: 200, 404 on no data, 500 on error
controllerSettle(threw) ==
    IF threw
    THEN [log |-> <<"error", "debug">>, settled |-> "resolved"]
    ELSE [log |-> <<>>, settled |-> "resolved"]

----------------------------------------------------------------------------
(* db.service.ts: the rows the insert statements store *)

\* padding that puts the zeros in front of the supplied values
paddedValues_unshift(values) ==
    IF Len(values) < DigitalWidth
    THEN [i \in 1..(DigitalWidth - Len(values)) |-> 0] \o values
    ELSE values

\* const paddedValues = [...values]; while (paddedValues.length < 9) push(0)
paddedValues(values) ==
    IF Len(values) < DigitalWidth
    THEN values \o [i \in 1..(DigitalWidth - Len(values)) |-> 0]
    ELSE values

\* INSERT INTO digital_inputs (id, ip1..ip9) VALUES (?, ... ?): the ten
\* placeholders take the first ten parameters of [deviceId, ...paddedValues]
insertDigitalInputs(deviceId, values) ==
    LET params == <<deviceId>> \o paddedValues(values)
    IN  [record_id |-> Cardinality(digital_inputs) + 1,
         id |-> params[1],
         ip |-> [n \in 1..DigitalWidth |-> params[n + 1]],
         created_at |-> now]

\* fault computed as (values[10] || '').toString(): a 0 reads as absent
faultOf_falsy(values) ==
    LET v == At(values, 10)
    IN  IF v = None THEN "" ELSE IF v[1] = 0 THEN "" ELSE NumToString(v[1])

\* fault: values[10]?.toString() || ''
faultOf(values) ==
    LET v == At(values, 10)
        s == IF v = None THEN None ELSE Some(NumToString(v[1]))
    IN  IF s = None THEN "" ELSE IF s[1] = "" THEN "" ELSE s[1]

insertAnalyzerData(deviceId, values) ==
    [id |-> deviceId,
     kw  |-> OrZero(At(values, 0)),
     kwr |-> OrZero(At(values, 1)),
     kwy |-> OrZero(At(values, 2)),
     kwb |-> OrZero(At(values, 3)),
     vry |-> OrZero(At(values, 4)),
     vyb |-> OrZero(At(values, 5)),
     vbr |-> OrZero(At(values, 6)),
     ir  |-> OrZero(At(values, 7)),
     iy  |-> OrZero(At(values, 8)),
     ib  |-> OrZero(At(values, 9)),
     fault |-> faultOf(values),
     created_at |-> now]

insertAnalogInputs(deviceId, values) ==
    [id |-> deviceId,
     ai1 |-> OrZero(At(values, 0)),
     ai2 |-> OrZero(At(values, 1)),
     created_at |-> now]

\* an insertDeviceData without default parameter values: the omitted
\* arguments reach the statement as NULL
insertDeviceData_nullDefaults(deviceId, rnum, ip) ==
    [id |-> deviceId,
     ip_address |-> IF ip = None THEN "NULL" ELSE ip[1],
     random_number |-> IF rnum = None THEN -1 ELSE rnum[1],
     created_at |-> now]

\* insertDeviceData(deviceId, random_number = 0, ip = "00.00.00.00")
insertDeviceData(deviceId, rnum, ip) ==
    [id |-> deviceId,
     ip_address |-> IF ip = None THEN "00.00.00.00" ELSE ip[1],
     random_number |-> IF rnum = None THEN 0 ELSE rnum[1],
     created_at |-> now]

\* a plain INSERT on a table without the primary key
upsertDeviceData_append(table, row) == table \cup {row}

\* INSERT ... ON DUPLICATE KEY UPDATE ip_address, random_number on the
\* primary key id; created_at follows ON UPDATE CURRENT_TIMESTAMP, which
\* fires only when a column of the row changes
upsertDeviceData(table, row) ==
    IF \E r \in table : r.id = row.id
    THEN {IF r.id # row.id THEN r
          ELSE IF r.ip_address = row.ip_address
                  /\ r.random_number = row.random_number
               THEN r
               ELSE row : r \in table}
    ELSE table \cup {row}

\* PRIMARY KEY(id, created_at) of analyzer_data and analog_inputs
duplicateKey(table, row) ==
    \E r \in table : r.id = row.id /\ r.created_at = row.created_at

\* values is undefined and the function reads it before its query
readsUndefined(t) ==
    /\ t.op \in {"insertDigitalInputs", "insertAnalyzerData", "insertAnalogInputs"}
    /\ t.values = None

----------------------------------------------------------------------------
(* db.service.ts: the queries *)

\* device ids in the order the database collates them
DeviceOrder == <<"d1", "d2", "d3">>
Rank(id) == CHOOSE i \in 1..Len(DeviceOrder) : DeviceOrder[i] = id

\* sequences of the same length that may repeat a row and leave one out
Listings_repeating(S) == [1..Cardinality(S) -> S]

\* the sequences that list every row of a set once
Listings(S) ==
    {s \in [1..Cardinality(S) -> S] :
        \A i, j \in 1..Cardinality(S) : i # j => s[i] # s[j]}

\* the same query with ORDER BY created_at ASC
getAll_ascending(table) ==
    {s \in Listings(table) :
        \A i \in 1..(Len(s) - 1) : s[i].created_at <= s[i + 1].created_at}

\* SELECT * FROM <table> ORDER BY created_at DESC: the order of rows with
\* equal created_at is the server's choice
getAll(table) ==
    {s \in Listings(table) :
        \A i \in 1..(Len(s) - 1) : s[i].created_at >= s[i + 1].created_at}

\* SELECT * FROM <table> ORDER BY created_at DESC LIMIT 1; rows[0] || null
getLatest(table) ==
    IF table = {} THEN {None} ELSE {Some(s[1]) : s \in getAll(table)}

\* SELECT id, MAX(created_at) as max_created_at FROM <table> GROUP BY id
maxCreatedAt(table) ==
    {[id |-> r.id, max_created_at |-> r.created_at] :
        r \in {q \in table : \A o \in table : o.id = q.id => o.created_at <= q.created_at}}

\* <table> t1 INNER JOIN (... GROUP BY id) t2
\*   ON t1.id = t2.id AND t1.created_at = t2.max_created_at
latestPerDevice(table) ==
    {r \in table : \E g \in maxCreatedAt(table) :
        r.id = g.id /\ r.created_at = g.max_created_at}

\* getLatestDigitalInputs: the latest rows of every device, ORDER BY di1.id
getLatestDigitalInputs ==
    {s \in Listings(latestPerDevice(digital_inputs)) :
        \A i \in 1..(Len(s) - 1) : Rank(s[i].id) <= Rank(s[i + 1].id)}

RECURSIVE Gcd(_, _)
Gcd(a, b) == IF b = 0 THEN a ELSE Gcd(b, a % b)

\* AVG over n values of sum s: NULL on no rows, else the quotient s / n,
\* held as the fraction in lowest terms
Avg(s, n) ==
    IF n = 0 THEN None
    ELSE LET g == Gcd(s, n) IN Some(<<s \div g, n \div g>>)

\* device_data d LEFT JOIN (latest analyzer row per device) a1 ON d.id = a1.id:
\* a roster device without a match yields one row of NULLs
rosterLeftJoin(latest) ==
    {[id |-> d.id, a |-> Some(a)] :
        <<d, a>> \in {j \in device_data \X latest : j[1].id = j[2].id}}
    \cup {[id |-> d.id, a |-> None] :
            d \in {x \in device_data : \A a \in latest : a.id # x.id}}

RECURSIVE SumKw(_)
SumKw(S) ==
    IF S = {} THEN 0
    ELSE LET x == CHOOSE y \in S : TRUE IN x.a[1].kw + SumKw(S \ {x})

\* the average taken over every roster device, a missing reading counting 0
getAverageKW_overRoster ==
    LET joined == rosterLeftJoin(latestPerDevice(analyzer_data))
    IN  [average_kw |-> Avg(SumKw({j \in joined : j.a # None}), Cardinality(joined))]

\* getAverageKW: SELECT AVG(latest_kw) over the joined rows
\* WHERE a1.kw IS NOT NULL; result[0]
getAverageKW ==
    LET latest_records ==
            {j \in rosterLeftJoin(latestPerDevice(analyzer_data)) : j.a # None}
    IN  [average_kw |-> Avg(SumKw(latest_records), Cardinality(latest_records))]

----------------------------------------------------------------------------
(* db.service.ts: getDevicesStatus *)

\* a string is the sequence of its tokens; "&" and "=" are tokens of their
\* own, "state" is one token, every digit is one token

\* s.split(sep): the pieces of s between the occurrences of sep
RECURSIVE split(_, _)
split(s, sep) ==
    IF \A i \in 1..Len(s) : s[i] # sep THEN <<s>>
    ELSE LET k == CHOOSE i \in 1..Len(s) :
                      s[i] = sep /\ \A j \in 1..(i - 1) : s[j] # sep
         IN  <<SubSeq(s, 1, k - 1)>> \o split(SubSeq(s, k + 1, Len(s)), sep)

\* key.replace('state', ''): the first occurrence is removed
replaceState(key) ==
    IF \A i \in 1..Len(key) : key[i] # "state" THEN key
    ELSE LET k == CHOOSE i \in 1..Len(key) :
                      key[i] = "state" /\ \A j \in 1..(i - 1) : key[j] # "state"
         IN  SubSeq(key, 1, k - 1) \o SubSeq(key, k + 1, Len(key))

\* JavaScript numbers of the state vector: a parsed integer or NaN
Num(n) == <<"num", n>>
NaN == <<"NaN", 0>>

IsDigit(c) == \E d \in 1..10 : DigitChars[d] = c
DigitValue(c) == (CHOOSE d \in 1..10 : DigitChars[d] = c) - 1

RECURSIVE digitsValue(_)
digitsValue(s) ==
    IF s = <<>> THEN 0
    ELSE 10 * digitsValue(SubSeq(s, 1, Len(s) - 1)) + DigitValue(s[Len(s)])

\* parseInt(x): the leading digits of x, NaN when there are none or x is
\* undefined
parseInt(o) ==
    IF o = None THEN NaN
    ELSE LET s == o[1]
             k == Cardinality({i \in 1..Len(s) : \A j \in 1..i : IsDigit(s[j])})
         IN  IF k = 0 THEN NaN ELSE Num(digitsValue(SubSeq(s, 1, k)))

\* states[stateNum] = parseInt(value), pair after pair: a later pair
\* overwrites an earlier one of the same key
RECURSIVE assignStates(_, _)
assignStates(states, pairs) ==
    IF pairs = <<>> THEN states
    ELSE LET kv == split(pairs[1], "=")
             key == kv[1]
             value == IF Len(kv) >= 2 THEN Some(kv[2]) ELSE None
             stateNum == parseInt(Some(replaceState(key)))
             assigned == [k \in (DOMAIN states) \cup {stateNum} |->
                             IF k = stateNum THEN parseInt(value) ELSE states[k]]
         IN  assignStates(assigned, Tail(pairs))

\* const states = {}; if (STATE) STATE.split('&').forEach(...)
parseStates(State) ==
    IF State = None THEN <<>>
    ELSE IF State[1] = <<>> THEN <<>>
    ELSE assignStates(<<>>, split(State[1], "&"))

\* ${states[n] ?? 0}
targetOf(states, n) ==
    IF Num(n) \in DOMAIN states THEN states[Num(n)] ELSE Num(0)

\* the text NaN in the statement is not a value: the server rejects it
rejectsStatement(State) ==
    \E n \in 1..DigitalWidth : targetOf(parseStates(State), n) = NaN

\* CASE WHEN di.ipN = <target> OR di.ipN IS NULL THEN 1 ELSE 0 END
caseWhen(j, n, target) ==
    IF j.a = None THEN 1
    ELSE IF Num(j.a[1].ip[n]) = target THEN 1 ELSE 0

RECURSIVE SumCase(_, _, _)
SumCase(rows, n, target) ==
    IF rows = {} THEN 0
    ELSE LET j == CHOOSE x \in rows : TRUE
         IN  caseWhen(j, n, target) + SumCase(rows \ {j}, n, target)

\* the same statement with the roster INNER JOINed to the latest rows
getDevicesStatus_innerJoin(State) ==
    LET states == parseStates(State)
        joined == {j \in rosterLeftJoin(latestPerDevice(digital_inputs)) : j.a # None}
    IN  [n \in 1..DigitalWidth |->
            IF joined = {} THEN None
            ELSE Some(SumCase(joined, n, targetOf(states, n)))]

\* getDevicesStatus: SELECT SUM(CASE ...) as count1 .. count9 FROM
\* device_data d LEFT JOIN (latest digital_inputs rows) di ON d.id = di.id;
\* result[0]; SUM over no rows is NULL
getDevicesStatus(State) ==
    LET states == parseStates(State)
        joined == rosterLeftJoin(latestPerDevice(digital_inputs))
    IN  [n \in 1..DigitalWidth |->
            IF joined = {} THEN None
            ELSE Some(SumCase(joined, n, targetOf(states, n)))]

----------------------------------------------------------------------------
(* index.ts: the process-level error handlers *)

running == process.status = "running"

\* process.on('unhandledRejection' / 'uncaughtException'): process.exit(1)
exit1(p) == [p EXCEPT !.status = "exited", !.code = 1]

\* a promise nobody awaits settles: a rejection reaches unhandledRejection
onSettled(p, settled) == IF settled = "rejected" THEN exit1(p) ELSE p

\* let client: mqtt.MqttClient; before connectMqtt has been called
noClient ==
    [connectMqtt EXCEPT !.status = "none", !.listeners = {}]

\* startServer up to await dbService.initDatabase(): the process runs,
\* app.listen has not been called
startServer == [status |-> "running", code |-> 0, listening |-> FALSE]

\* a startServer that logs a failed initDatabase and carries on
startServerResume_carryOn(p, c, threw) ==
    [process |-> [p EXCEPT !.listening = TRUE], client |-> connectMqtt]

\* startServer after the await: initDatabase threw and the catch block
\* calls process.exit(1), or it returned and connectMqtt() and
\* app.listen(port) are called
startServerResume(p, c, threw) ==
    IF threw
    THEN [process |-> exit1(p), client |-> c]
    ELSE [process |-> [p EXCEPT !.listening = TRUE], client |-> connectMqtt]

\* the log of startServer after the await
startServerSettle(threw) ==
    IF threw
    THEN [log |-> <<"error", "debug", "debug", "debug">>, settled |-> "resolved"]
    ELSE [log |-> <<"debug", "debug", "info", "debug", "debug">>,
          settled |-> "resolved"]

\* the process and the client once the caller of task t has resumed
afterSettle(p, c, t, threw, settled) ==
    IF t.caller = "startServer" THEN startServerResume(p, c, threw)
    ELSE [process |-> onSettled(p, settled), client |-> c]

\* initDatabase: the table its n-th CREATE TABLE IF NOT EXISTS creates
createTable(n) ==
    CASE n = 1 -> "digital_inputs"
      [] n = 2 -> "analyzer_data"
      [] n = 3 -> "analog_inputs"
      [] n = 4 -> "device_data"

----------------------------------------------------------------------------
(* The operations as steps *)

InsertOps == {"insertDigitalInputs", "insertAnalyzerData",
              "insertAnalogInputs", "insertDeviceData"}

TotalRows ==
    Cardinality(digital_inputs) + Cardinality(analyzer_data)
    + Cardinality(analog_inputs) + Cardinality(device_data)

\* inserts that have been called and have not returned
InsertsInFlight ==
    BagCardinality([t \in {u \in BagToSet(tasks) : u.op \in InsertOps} |-> tasks[t]])

\* pool.getConnection() resolves when a connection is idle
poolHasIdle == held < connectionLimit

\* a finally block that does not give the connection back
release_missing(h) == h

\* finally { if (conn) conn.release(); }
release(h) == h - 1

\* the row an insert task stores
rowOf(t) ==
    CASE t.op = "insertDigitalInputs" -> insertDigitalInputs(t.deviceId, t.values[1])
      [] t.op = "insertAnalyzerData"  -> insertAnalyzerData(t.deviceId, t.values[1])
      [] t.op = "insertAnalogInputs"  -> insertAnalogInputs(t.deviceId, t.values[1])
      [] t.op = "insertDeviceData"    -> insertDeviceData(t.deviceId, t.rnum, t.ip)

\* the statement of getDevicesStatus carries the text NaN
rejectsQuery(t) == t.op = "getDevicesStatus" /\ rejectsStatement(t.State)

\* the table after the statement of an insert of kind op has run on it
storeRow(op, table, t) ==
    IF op = "insertDeviceData" THEN upsertDeviceData(table, rowOf(t))
    ELSE table \cup {rowOf(t)}

\* an insert that also deletes the device's rows of the other kinds
insertInto_clearing(op, table, t) ==
    IF t.op = op THEN storeRow(op, table, t)
    ELSE IF t.op \in InsertOps THEN {r \in table : r.id # t.deviceId}
    ELSE table

\* what the query of task t makes of the table of the inserts of kind op:
\* each statement names one table, the others stay as they are
insertInto(op, table, t) ==
    IF t.op = op THEN storeRow(op, table, t) ELSE table

\* the statement fails with ER_DUP_ENTRY
violatesKey(t) ==
    \/ t.op = "insertAnalyzerData" /\ duplicateKey(analyzer_data, rowOf(t))
    \/ t.op = "insertAnalogInputs" /\ duplicateKey(analog_inputs, rowOf(t))

\* what the query of a task can return
resultsOf(t) ==
    CASE t.op = "getAllDigitalInputs"    -> getAll(digital_inputs)
      [] t.op = "getLatestDigitalInputs" -> getLatestDigitalInputs
      [] t.op = "getAllAnalyzerData"     -> getAll(analyzer_data)
      [] t.op = "getLatestAnalyzerData"  -> getLatest(analyzer_data)
      [] t.op = "getAverageKW"           -> {getAverageKW}
      [] t.op = "getAllAnalogInputs"     -> getAll(analog_inputs)
      [] t.op = "getLatestAnalogInputs"  -> getLatest(analog_inputs)
      [] t.op = "getAllDeviceData"       -> getAll(device_data)
      [] t.op = "getLatestDeviceData"    -> getLatest(device_data)
      [] t.op = "getDevicesStatus"       -> {getDevicesStatus(t.State)}
      [] OTHER                           -> {None}

\* the operation returns or throws to its caller, which logs and settles
settle(t, threw, cause, result) ==
    LET c == IF t.caller = "mqtt" THEN handlerSettle(threw)
             ELSE IF t.caller = "startServer" THEN startServerSettle(threw)
             ELSE controllerSettle(threw)
    IN  [act |-> "settle", task |-> t, threw |-> threw, cause |-> cause,
         result |-> result,
         status |-> IF t.caller = "http"
                    THEN controllerStatus(t.op, threw, result) ELSE 0,
         log |-> (IF threw THEN <<"error">> ELSE <<>>) \o c.log,
         settled |-> c.settled]

\* the database clock advances
Tick(P) ==
    /\ now < P.maxTime
    /\ now' = now + 1
    /\ ev' = [act |-> "tick"]
    /\ UNCHANGED <<tables, schema, held, tasks, transport, process>>

\* client.on('message', handleMessage): a message arrives and handleMessage
\* runs to its return or to the await of pool.getConnection()
Receive(P, topic, payload) ==
    LET h == handleMessage(topic, payload)
        sync == IF h.handler = "none" THEN <<>> ELSE <<"debug">>
    IN  /\ running
        /\ client.connected
        /\ h.handler # "none" =>
              /\ BagCardinality(tasks) < P.maxTasks
              /\ TotalRows + InsertsInFlight < P.maxRows
        /\ tasks' = IF h.handler = "none" THEN tasks
                    ELSE tasks (+) SetToBag({handlerCall(h.handler, payload)})
        /\ ev' = [act |-> "handleMessage", topic |-> topic, payload |-> payload,
                  handler |-> h.handler, log |-> h.log \o sync,
                  settled |-> h.settled]
        /\ process' = onSettled(process, h.settled)
        /\ UNCHANGED <<tables, schema, now, held, transport>>

\* a controller (or startServer, for initDatabase) calls a storage function
Request(P, op) ==
    /\ running
    /\ process.listening
    /\ BagCardinality(tasks) < P.maxTasks
    /\ tasks' = tasks (+) SetToBag({NewTask(op, "http", "", None, None, None)})
    /\ ev' = [act |-> "request", op |-> op]
    /\ UNCHANGED <<tables, schema, now, held, transport, process>>

\* a caller passes a state string to getDevicesStatus, which parses it and
\* awaits pool.getConnection()
RequestStatus(P, State) ==
    /\ running
    /\ process.listening
    /\ BagCardinality(tasks) < P.maxTasks
    /\ tasks' = tasks (+) SetToBag({NewTask("getDevicesStatus", "http", "", None, None, None)
                                      @@ [State |-> State]})
    /\ ev' = [act |-> "request", op |-> "getDevicesStatus"]
    /\ UNCHANGED <<tables, schema, now, held, transport, process>>

\* pool.getConnection() resolves; the function runs on to its query, or
\* throws on undefined values and releases in its finally block
Acquire(t) ==
    /\ running
    /\ t.pc = "acquire"
    /\ poolHasIdle
    /\ IF readsUndefined(t)
       THEN /\ tasks' = afterCatch(tasks, t)
            /\ held' = release(held + 1)
            /\ ev' = settle(t, TRUE, "TypeError", None)
            /\ process' = onSettled(process, ev'.settled)
       ELSE /\ tasks' = (tasks (-) SetToBag({t})) (+) SetToBag({[t EXCEPT !.pc = "query"]})
            /\ held' = held + 1
            /\ ev' = [act |-> "acquire", op |-> t.op]
            /\ process' = process
    /\ UNCHANGED <<tables, schema, now, transport>>

\* pool.getConnection() rejects (acquire timeout, server unreachable):
\* conn stays undefined and nothing is released
AcquireFail(t) ==
    /\ running
    /\ t.pc = "acquire"
    /\ tasks' = afterCatch(tasks, t)
    /\ ev' = settle(t, TRUE, "acquire", None)
    /\ process' = afterSettle(process, client, t, TRUE, ev'.settled).process
    /\ client' = afterSettle(process, client, t, TRUE, ev'.settled).client
    /\ UNCHANGED <<tables, schema, now, held, broker>>

\* conn.query(...) succeeds; the function returns through finally
QueryOk(t) ==
    /\ running
    /\ t.pc = "query"
    /\ ~violatesKey(t)
    /\ ~rejectsQuery(t)
    /\ digital_inputs' = insertInto("insertDigitalInputs", digital_inputs, t)
    /\ analyzer_data' = insertInto("insertAnalyzerData", analyzer_data, t)
    /\ analog_inputs' = insertInto("insertAnalogInputs", analog_inputs, t)
    /\ device_data' = insertInto("insertDeviceData", device_data, t)
    /\ IF t.op = "initDatabase" /\ t.stmt < 4
       THEN /\ tasks' = (tasks (-) SetToBag({t})) (+) SetToBag({[t EXCEPT !.stmt = @ + 1]})
            /\ held' = held
            /\ ev' = [act |-> "query", op |-> t.op]
            /\ process' = process
            /\ client' = client
       ELSE /\ tasks' = tasks (-) SetToBag({t})
            /\ held' = release(held)
            /\ \E r \in resultsOf(t) : ev' = settle(t, FALSE, "none", r)
            /\ process' = afterSettle(process, client, t, FALSE, ev'.settled).process
            /\ client' = afterSettle(process, client, t, FALSE, ev'.settled).client
    /\ schema' = IF t.op = "initDatabase" THEN schema \cup {createTable(t.stmt)}
                 ELSE schema
    /\ UNCHANGED <<now, broker>>

\* conn.query(...) rejects: the server or the connection failed
QueryErr(t) ==
    /\ running
    /\ t.pc = "query"
    /\ tasks' = afterCatch(tasks, t)
    /\ held' = release(held)
    /\ ev' = settle(t, TRUE, "server", None)
    /\ process' = afterSettle(process, client, t, TRUE, ev'.settled).process
    /\ client' = afterSettle(process, client, t, TRUE, ev'.settled).client
    /\ UNCHANGED <<tables, schema, now, broker>>

\* conn.query(...) rejects with ER_DUP_ENTRY on PRIMARY KEY(id, created_at)
QueryDup(t) ==
    /\ running
    /\ t.pc = "query"
    /\ violatesKey(t)
    /\ tasks' = afterCatch(tasks, t)
    /\ held' = release(held)
    /\ ev' = settle(t, TRUE, "duplicate", None)
    /\ process' = onSettled(process, ev'.settled)
    /\ UNCHANGED <<tables, schema, now, transport>>

\* conn.query(...) rejects a statement the server cannot parse or resolve
QueryReject(t) ==
    /\ running
    /\ t.pc = "query"
    /\ rejectsQuery(t)
    /\ tasks' = afterCatch(tasks, t)
    /\ held' = release(held)
    /\ ev' = settle(t, TRUE, "sql", None)
    /\ process' = onSettled(process, ev'.settled)
    /\ UNCHANGED <<tables, schema, now, transport>>

\* the broker becomes unreachable
BrokerDown(maxOutages) ==
    /\ broker.up
    /\ broker.outages < maxOutages
    /\ broker' = [up |-> FALSE, outages |-> broker.outages + 1]
    /\ ev' = [act |-> "brokerDown"]
    /\ UNCHANGED <<tables, schema, now, held, tasks, client, process>>

\* the broker becomes reachable again
BrokerUp ==
    /\ ~broker.up
    /\ broker' = [broker EXCEPT !.up = TRUE]
    /\ ev' = [act |-> "brokerUp"]
    /\ UNCHANGED <<tables, schema, now, held, tasks, client, process>>

\* client.on('connect'): the broker has accepted the connection; the
\* listener logs and calls subscribeToTopics
Connect ==
    /\ running
    /\ client.status = "connecting"
    /\ broker.up
    /\ LET c == [client EXCEPT !.status = "connected", !.connected = TRUE,
                               !.reconnecting = FALSE, !.elapsed = 0]
       IN  client' = [c EXCEPT !.requested = subscribeToTopics(c)]
    /\ ev' = [act |-> "connect", reconnect |-> client.reconnecting, log |-> <<"info">>]
    /\ UNCHANGED <<tables, schema, now, held, tasks, broker, process>>

\* the callback of client.subscribe: the broker has granted the pattern
Suback(k) ==
    /\ running
    /\ client.connected
    /\ broker.up
    /\ k \in client.requested
    /\ client' = [client EXCEPT !.requested = @ \ {k}, !.subscribed = @ \cup {k}]
    /\ ev' = [act |-> "suback", topic |-> MQTT_TOPICS[k], log |-> <<"info">>]
    /\ UNCHANGED <<tables, schema, now, held, tasks, broker, process>>

\* client.on('error') then client.on('close'): a connection attempt fails
ConnectError ==
    /\ running
    /\ client.status = "connecting"
    /\ ~broker.up
    /\ client' = [client EXCEPT !.status = "closed", !.elapsed = 0]
    /\ process' = emitError(process, client.listeners)
    /\ ev' = [act |-> "error", log |-> <<"error", "debug", "info">>]
    /\ UNCHANGED <<tables, schema, now, held, tasks, broker>>

\* client.on('close'): the connection is lost; with clean: true the broker
\* drops the session and its subscriptions
Close ==
    /\ running
    /\ client.connected
    /\ ~broker.up
    /\ client' = [client EXCEPT !.status = "closed", !.connected = FALSE,
                                !.requested = {}, !.subscribed = {}, !.elapsed = 0]
    /\ ev' = [act |-> "close", log |-> <<"info">>]
    /\ UNCHANGED <<tables, schema, now, held, tasks, broker, process>>

\* time passes while the reconnect timer runs
Wait ==
    /\ running
    /\ client.status = "closed"
    /\ client.elapsed < reconnectPeriod
    /\ client' = [client EXCEPT !.elapsed = @ + reconnectPeriod \div 2]
    /\ ev' = [act |-> "wait"]
    /\ UNCHANGED <<tables, schema, now, held, tasks, broker, process>>

\* client.on('reconnect'): the reconnect timer fires after reconnectPeriod
Reconnect ==
    /\ running
    /\ client.status = "closed"
    /\ client.elapsed >= reconnectPeriod
    /\ client' = [client EXCEPT !.status = "connecting", !.reconnecting = TRUE]
    /\ ev' = [act |-> "reconnect", elapsed |-> client.elapsed, log |-> <<"info">>]
    /\ UNCHANGED <<tables, schema, now, held, tasks, broker, process>>

Init ==
    /\ digital_inputs = {}
    /\ analyzer_data = {}
    /\ analog_inputs = {}
    /\ device_data = {}
    /\ schema = TableNames
    /\ now = 0
    /\ held = 0
    /\ tasks = EmptyBag
    /\ ev = [act |-> "start"]
    /\ client = [connectMqtt EXCEPT !.status = "connected", !.connected = TRUE,
                                     !.subscribed = DOMAIN MQTT_TOPICS]
    /\ broker = [up |-> TRUE, outages |-> 0]
    /\ process = [status |-> "running", code |-> 0, listening |-> TRUE]

----------------------------------------------------------------------------
(* Inputs *)

Topic(mid, last) == <<  <<"CDC">> >> \o mid \o << last >>

TDigital  == Topic(<< <<"dev1">> >>, <<"DIGITAL_INPUTS">>)
TAnalyser == Topic(<< <<"dev1">> >>, <<"ANALYSER_DATA">>)
TAnalog   == Topic(<< <<"dev1">> >>, <<"ANALOG_INPUT">>)
TDevice   == Topic(<< <<"dev1">> >>, <<"DEVICE_DATA">>)
TDeep     == Topic(<< <<"a">>, <<"b">> >>, <<"DIGITAL_INPUTS">>)   \* CDC/a/b/DIGITAL_INPUTS
TOther    == Topic(<< <<"dev1">> >>, <<"STATUS">>)                 \* CDC/dev1/STATUS
TBare     == << <<"DIGITAL_INPUTS">> >>                            \* DIGITAL_INPUTS

KindTopics == {TDigital, TAnalyser, TAnalog, TDevice}
AllTopics == KindTopics \cup {TDeep, TOther, TBare}

Obj(id, values, rnum, ip) ==
    [syntax |-> "object", ID |-> id, VALUES |-> values, RNUM |-> rnum, IP |-> ip]

PInvalid == [syntax |-> "invalid", ID |-> None, VALUES |-> None, RNUM |-> None, IP |-> None]
PNull    == [syntax |-> "null", ID |-> None, VALUES |-> None, RNUM |-> None, IP |-> None]
PScalar  == [syntax |-> "scalar", ID |-> None, VALUES |-> None, RNUM |-> None, IP |-> None]

RoutePayloads ==
    {PInvalid, PNull, PScalar,
     Obj(None, Some(<<1>>), None, None),
     Obj(Some(""), Some(<<1>>), None, None),
     Obj(Some("d1"), None, None, None),
     Obj(Some("d1"), Some(<<1, 0, 1>>), Some(7), Some("10.0.0.1"))}

RouteProfile == [maxTasks |-> MaxTasks, maxRows |-> RouteRows, maxTime |-> RouteTime]

Next ==
    \/ Tick(RouteProfile)
    \/ \E topic \in AllTopics, payload \in RoutePayloads :
          Receive(RouteProfile, topic, payload)
    \/ \E t \in BagToSet(tasks) : Acquire(t)
    \/ \E t \in BagToSet(tasks) : AcquireFail(t)
    \/ \E t \in BagToSet(tasks) : QueryOk(t)
    \/ \E t \in BagToSet(tasks) : QueryErr(t)
    \/ \E t \in BagToSet(tasks) : QueryDup(t)

Spec == Init /\ [][Next]_vars

----------------------------------------------------------------------------
(* Claims on the message handler *)

CountLevel(log, level) == Cardinality({i \in DOMAIN log : log[i] = level})

Handled == ev.act = "handleMessage"

\* the payload parses to an object that carries a non-empty ID
HasID(payload) == payload.syntax = "object" /\ ~MissingID(payload)

\* CDC/<one non-empty segment>/<kind>
SingleLevelTopic(topic, kind) ==
    /\ Len(topic) = 3
    /\ topic[1] = <<"CDC">>
    /\ Len(topic[2]) > 0
    /\ topic[3] = <<kind>>

\* CDC/<two or more segments>/<kind>
MultiLevelTopic(topic, kind) ==
    /\ Len(topic) > 3
    /\ topic[1] = <<"CDC">>
    /\ topic[Len(topic)] = <<kind>>

\* C1: a message on CDC/<one segment>/DIGITAL_INPUTS is routed to the
\* digital-inputs insert, and a message on a topic with more than one
\* segment between CDC and DIGITAL_INPUTS is dropped without an insert.
C1_SingleLevelRouting ==
    (Handled /\ HasID(ev.payload)) =>
        /\ SingleLevelTopic(ev.topic, "DIGITAL_INPUTS")
              => ev.handler = "handleDigitalInputs"
        /\ MultiLevelTopic(ev.topic, "DIGITAL_INPUTS")
              => ev.handler = "none"

\* the topic matches one of the four subscribed patterns CDC/+/<kind>
Subscribed(topic) ==
    \E k \in DOMAIN MQTT_TOPICS :
        SingleLevelTopic(topic, MQTT_TOPICS[k][3][1])

C3_MissingIdDroppedWithWarning ==
    (Handled /\ ev.payload.syntax # "invalid" /\ MissingID(ev.payload)) =>
        /\ ev.handler = "none"
        /\ CountLevel(ev.log, "warn") >= 1
        /\ ev.settled = "resolved"

\* C13: every received message makes the handler call at most one storage
\* insert, of the one record kind it was dispatched to, and no other step
\* starts an insert; when that insert fails the failure is logged at error
\* level, no row is stored, the handler's promise resolves, and the insert
\* is not attempted again.
C13_AtMostOnce ==
    [][/\ ev'.act = "handleMessage" =>
            /\ ev'.handler = "none" => tasks' = tasks
            /\ ev'.handler # "none" =>
                  \E t \in BagToSet(tasks') :
                      /\ t.op = HandlerInsert[ev'.handler]
                      /\ t.caller = "mqtt"
                      /\ tasks' = tasks (+) SetToBag({t})
       /\ ev'.act # "handleMessage" =>
            BagCardinality(tasks') <= BagCardinality(tasks)
       /\ (ev'.act = "settle" /\ ev'.task.caller = "mqtt" /\ ev'.threw) =>
            /\ CountLevel(ev'.log, "error") >= 1
            /\ tasks' = tasks (-) SetToBag({ev'.task})
            /\ UNCHANGED tables
            /\ ev'.settled = "resolved"]_vars

\* an insert called for a message has failed at the database, and no
\* operation is in flight afterwards
C13_Witness ==
    /\ ev.act = "settle"
    /\ ev.task.caller = "mqtt"
    /\ ev.threw
    /\ ev.cause \in {"server", "duplicate"}
    /\ tasks = EmptyBag

\* the handler each configured kind is stored by
KindHandler ==
    [DIGITAL_INPUTS |-> "handleDigitalInputs",
     ANALYSER_DATA  |-> "handleAnalyzerData",
     ANALOG_INPUT   |-> "handleAnalogInput",
     DEVICE_DATA    |-> "handleDeviceData"]

\* C14: a topic is dispatched to the kind of the first configured pattern
\* it matches, in mapping order, and so to at most one kind; for a topic
\* that matches no configured pattern the handler logs a warning, performs
\* no insert, and raises no error.
C14_FirstMatchWins ==
    (Handled /\ HasID(ev.payload)) =>
        LET config == getTopicConfig(ev.topic)
        IN  /\ config # None => ev.handler = KindHandler[config[1]]
            /\ config = None =>
                  /\ ev.handler = "none"
                  /\ CountLevel(ev.log, "warn") >= 1
                  /\ CountLevel(ev.log, "error") = 0
                  /\ ev.settled = "resolved"

\* C15: whatever the topic, the payload and the storage outcome, the
\* promise of the message handler and of every topic handler resolves, and
\* the process keeps running: the unhandledRejection and uncaughtException
\* handlers are never reached from message ingestion.
C15_NoIngestionErrorFatal ==
    /\ running
    /\ ev.act = "handleMessage" => ev.settled \in {"resolved", "pending"}
    /\ (ev.act = "settle" /\ ev.task.caller = "mqtt") => ev.settled = "resolved"

\* an array-kind message without VALUES has made its insert throw, or the
\* pool has refused a connection, and the process is running
C15_Witness ==
    /\ ev.act = "settle"
    /\ ev.task.caller = "mqtt"
    /\ ev.threw
    /\ ev.cause \in {"TypeError", "acquire"}
    /\ running

\* C19: messages are handled strictly one at a time: no two ingestion
\* inserts are ever in flight at the same moment.
C19_OneMessageAtATime == InsertsInFlight <= 1

----------------------------------------------------------------------------
(* The padding specification: VALUES arrays of every length 0..MaxValuesLen *)

PadSeq(len) == [i \in 1..len |-> (len + i - 1) % 3]

PadPayloads ==
    {Obj(Some("d1"), Some(PadSeq(len)), None, None) : len \in 0..MaxValuesLen}

PadTopics == {TDigital, TAnalyser, TAnalog}

PadProfile == [maxTasks |-> PadTasks, maxRows |-> PadRows, maxTime |-> PadTime]

NextPad ==
    \/ Tick(PadProfile)
    \/ \E topic \in PadTopics, payload \in PadPayloads :
          Receive(PadProfile, topic, payload)
    \/ \E t \in BagToSet(tasks) : Acquire(t)
    \/ \E t \in BagToSet(tasks) : AcquireFail(t)
    \/ \E t \in BagToSet(tasks) : QueryOk(t)
    \/ \E t \in BagToSet(tasks) : QueryErr(t)
    \/ \E t \in BagToSet(tasks) : QueryDup(t)

SpecPad == Init /\ [][NextPad]_vars

\* position i (0-based) of the supplied values, 0 when it is missing
Supplied(values, i) == IF i < Len(values) THEN values[i + 1] ELSE 0

\* the insert of the last step returned normally
Inserted(e, op) == e.act = "settle" /\ e.task.op = op /\ ~e.threw

\* C4: whatever the length of the supplied sequence, a digital-inputs
\* insert stores one row of exactly 9 channel values and an analog-inputs
\* insert one row of exactly 2, each position holding the supplied value or
\* 0 when it is missing; a short sequence never makes the insert fail.
C4_FixedWidthPadding ==
    [][/\ Inserted(ev', "insertDigitalInputs") =>
            \E r \in digital_inputs' \ digital_inputs :
                /\ digital_inputs' = digital_inputs \cup {r}
                /\ DOMAIN r.ip = 1..DigitalWidth
                /\ \A n \in 1..DigitalWidth :
                      r.ip[n] = Supplied(ev'.task.values[1], n - 1)
       /\ Inserted(ev', "insertAnalogInputs") =>
            \E r \in analog_inputs' \ analog_inputs :
                /\ analog_inputs' = analog_inputs \cup {r}
                /\ <<r.ai1, r.ai2>> =
                      [n \in 1..AnalogWidth |-> Supplied(ev'.task.values[1], n - 1)]
       /\ (/\ ev'.act = "settle"
           /\ ev'.task.op \in {"insertDigitalInputs", "insertAnalogInputs"}
           /\ ev'.task.values # None)
             => ev'.cause \in {"none", "acquire", "server", "duplicate"}]_vars

\* a digital-inputs insert of fewer than 9 values, some of them non-zero,
\* has stored its row
C4_Witness ==
    /\ Inserted(ev, "insertDigitalInputs")
    /\ Len(ev.task.values[1]) \in 1..(DigitalWidth - 1)
    /\ \E n \in 1..Len(ev.task.values[1]) : ev.task.values[1][n] # 0
    /\ digital_inputs # {}

AnalyzerColumns == <<"kw", "kwr", "kwy", "kwb", "vry", "vyb", "vbr", "ir", "iy", "ib">>

\* C5: insertAnalyzerData stores positions 0..9 as kw, kwr, kwy, kwb, vry,
\* vyb, vbr, ir, iy, ib in that order, 0 for every absent position, and
\* fault as the string form of position 10, or "" when it is absent.
C5_AnalyzerPositionalMapping ==
    [][Inserted(ev', "insertAnalyzerData") =>
          \E r \in analyzer_data' \ analyzer_data :
              /\ analyzer_data' = analyzer_data \cup {r}
              /\ \A i \in 0..9 :
                    r[AnalyzerColumns[i + 1]] = Supplied(ev'.task.values[1], i)
              /\ r.fault = IF Len(ev'.task.values[1]) > 10
                           THEN DigitChars[ev'.task.values[1][11] + 1]
                           ELSE ""]_vars

\* an analyzer insert whose position 10 is the number 0 has stored its row
C5_Witness ==
    /\ Inserted(ev, "insertAnalyzerData")
    /\ Len(ev.task.values[1]) > 10
    /\ ev.task.values[1][11] = 0
    /\ \E r \in analyzer_data : r.fault = "0"

\* an analyzer insert of fewer than 10 values has stored its row
C5_WitnessShort ==
    /\ Inserted(ev, "insertAnalyzerData")
    /\ Len(ev.task.values[1]) \in 1..9
    /\ analyzer_data # {}

----------------------------------------------------------------------------
(* The storage specification: two devices, all four kinds, equal timestamps *)

StoreIds == {"d1", "d2"}

ArrayPayloads ==
    {Obj(Some(id), Some(<<v>>), None, None) : id \in StoreIds, v \in {1, 2}}

DevicePayloads ==
    {Obj(Some(id), None, None, None) : id \in StoreIds}
    \cup {Obj(Some(id), None, Some(7), Some("10.0.0.1")) : id \in StoreIds}
    \cup {Obj(Some(id), None, Some(8), Some("10.0.0.2")) : id \in StoreIds}

\* the messages the devices publish: <<topic, payload>>
StoreMessages ==
    ({TDigital, TAnalyser, TAnalog} \X ArrayPayloads)
    \cup ({TDevice} \X DevicePayloads)

StoreProfile == [maxTasks |-> StoreTasks, maxRows |-> StoreRows, maxTime |-> StoreTime]

NextStore ==
    \/ Tick(StoreProfile)
    \/ \E m \in StoreMessages : Receive(StoreProfile, m[1], m[2])
    \/ \E t \in BagToSet(tasks) : Acquire(t)
    \/ \E t \in BagToSet(tasks) : AcquireFail(t)
    \/ \E t \in BagToSet(tasks) : QueryOk(t)
    \/ \E t \in BagToSet(tasks) : QueryErr(t)
    \/ \E t \in BagToSet(tasks) : QueryDup(t)

SpecStore == Init /\ [][NextStore]_vars

\* the fields of a stored row equal the values a task inserted
DigitalEquals(r, t) ==
    r.id = t.deviceId
    /\ \A n \in 1..DigitalWidth : r.ip[n] = Supplied(t.values[1], n - 1)

AnalyzerEquals(r, t) ==
    /\ r.id = t.deviceId
    /\ \A i \in 0..9 : r[AnalyzerColumns[i + 1]] = Supplied(t.values[1], i)
    /\ r.fault = IF Len(t.values[1]) > 10 THEN DigitChars[t.values[1][11] + 1] ELSE ""

AnalogEquals(r, t) ==
    r.id = t.deviceId
    /\ r.ai1 = Supplied(t.values[1], 0) /\ r.ai2 = Supplied(t.values[1], 1)

DeviceEquals(r, t) ==
    /\ r.id = t.deviceId
    /\ r.ip_address = IF t.ip = None THEN "00.00.00.00" ELSE t.ip[1]
    /\ r.random_number = IF t.rnum = None THEN 0 ELSE t.rnum[1]

\* row r is strictly newer than every other row of the table
StrictlyNewest(r, table) == \A o \in table \ {r} : o.created_at < r.created_at

\* C6 as stated: right after a successful insert, whatever the table held
\* before, getLatest of that kind returns a row for the device id whose
\* fields equal the inserted values.
C6_RoundTrip ==
    [][/\ Inserted(ev', "insertDigitalInputs") =>
            \A s \in getLatestDigitalInputs' :
                \E i \in DOMAIN s : DigitalEquals(s[i], ev'.task)
       /\ Inserted(ev', "insertAnalyzerData") =>
            \A res \in getLatest(analyzer_data)' :
                res # None /\ AnalyzerEquals(res[1], ev'.task)
       /\ Inserted(ev', "insertAnalogInputs") =>
            \A res \in getLatest(analog_inputs)' :
                res # None /\ AnalogEquals(res[1], ev'.task)
       /\ Inserted(ev', "insertDeviceData") =>
            \A res \in getLatest(device_data)' :
                res # None /\ DeviceEquals(res[1], ev'.task)]_vars

\* C6 amended: right after a successful insert, getLatestDigitalInputs
\* contains a row for the device id equal to the inserted values; the
\* single-row getLatest of the other three kinds returns such a row whenever
\* the device's row holding those values is strictly newer than every other
\* row of its table (rows of equal timestamp may be returned in its place).
C6_RoundTripUnlessTied ==
    [][/\ Inserted(ev', "insertDigitalInputs") =>
            \A s \in getLatestDigitalInputs' :
                \E i \in DOMAIN s : DigitalEquals(s[i], ev'.task)
       /\ Inserted(ev', "insertAnalyzerData") =>
            /\ \E r \in analyzer_data' : AnalyzerEquals(r, ev'.task)
            /\ (\E r \in analyzer_data' :
                    AnalyzerEquals(r, ev'.task) /\ StrictlyNewest(r, analyzer_data'))
                 => \A res \in getLatest(analyzer_data)' :
                        res # None /\ AnalyzerEquals(res[1], ev'.task)
       /\ Inserted(ev', "insertAnalogInputs") =>
            /\ \E r \in analog_inputs' : AnalogEquals(r, ev'.task)
            /\ (\E r \in analog_inputs' :
                    AnalogEquals(r, ev'.task) /\ StrictlyNewest(r, analog_inputs'))
                 => \A res \in getLatest(analog_inputs)' :
                        res # None /\ AnalogEquals(res[1], ev'.task)
       /\ Inserted(ev', "insertDeviceData") =>
            /\ \E r \in device_data' : DeviceEquals(r, ev'.task)
            /\ (\E r \in device_data' :
                    DeviceEquals(r, ev'.task) /\ StrictlyNewest(r, device_data'))
                 => \A res \in getLatest(device_data)' :
                        res # None /\ DeviceEquals(res[1], ev'.task)]_vars

\* an analyzer insert has completed into a table that held an older row,
\* and its row is the strictly newest
C6_Witness ==
    /\ Inserted(ev, "insertAnalyzerData")
    /\ Cardinality(analyzer_data) >= 2
    /\ \E r \in analyzer_data :
          AnalyzerEquals(r, ev.task) /\ StrictlyNewest(r, analyzer_data)

AppendOps == {"insertDigitalInputs", "insertAnalyzerData", "insertAnalogInputs"}

TableOf(op) ==
    CASE op = "insertDigitalInputs" -> digital_inputs
      [] op = "insertAnalyzerData"  -> analyzer_data
      [] op = "insertAnalogInputs"  -> analog_inputs
      [] op = "insertDeviceData"    -> device_data

TableAfter(op) ==
    CASE op = "insertDigitalInputs" -> digital_inputs'
      [] op = "insertAnalyzerData"  -> analyzer_data'
      [] op = "insertAnalogInputs"  -> analog_inputs'
      [] op = "insertDeviceData"    -> device_data'

C21_OwnTableOnly ==
    [][/\ (ev'.act = "settle" /\ ev'.task.op \in InsertOps) =>
            /\ \A op \in InsertOps \ {ev'.task.op} : TableAfter(op) = TableOf(op)
            /\ ev'.threw => UNCHANGED tables
       /\ ev'.act # "settle" => UNCHANGED tables]_vars

\* an insert of one kind has failed for a device id that has a stored row
\* of another kind
C21_Witness ==
    /\ ev.act = "settle"
    /\ ev.task.op \in InsertOps
    /\ ev.threw
    /\ \E op \in InsertOps \ {ev.task.op} :
          \E r \in TableOf(op) : r.id = ev.task.deviceId

\* an insert of one kind has completed for a device id that has a stored
\* row of another kind
C21_WitnessStored ==
    /\ Inserted(ev, "insertDigitalInputs")
    /\ \E r \in device_data : r.id = ev.task.deviceId

----------------------------------------------------------------------------
(* The device-data specification: heartbeats with and without RNUM and IP *)

DeviceIds == {"d1", "d2"}

\* device-data payloads: RNUM and IP each present or omitted
HeartbeatPayloads ==
    {Obj(Some(id), None, rnum, ip) :
        id \in DeviceIds, rnum \in {None, Some(7)}, ip \in {None, Some("10.0.0.1")}}

DeviceProfile == [maxTasks |-> DeviceTasks, maxRows |-> DeviceRows, maxTime |-> DeviceTime]

NextDevice ==
    \/ Tick(DeviceProfile)
    \/ \E payload \in HeartbeatPayloads : Receive(DeviceProfile, TDevice, payload)
    \/ \E t \in BagToSet(tasks) : Acquire(t)
    \/ \E t \in BagToSet(tasks) : AcquireFail(t)
    \/ \E t \in BagToSet(tasks) : QueryOk(t)
    \/ \E t \in BagToSet(tasks) : QueryErr(t)

SpecDevice == Init /\ [][NextDevice]_vars

\* the heartbeat number and IP address a device-data task stores
StoredRnum(t) == IF t.rnum = None THEN 0 ELSE t.rnum[1]
StoredIp(t) == IF t.ip = None THEN "00.00.00.00" ELSE t.ip[1]

\* C22: a device-data message that omits RNUM and/or IP is handed to
\* insertDeviceData like any other; when the insert completes the device
\* id has exactly one row, whose heartbeat number is 0 if RNUM was omitted
\* and whose IP address is "00.00.00.00" if IP was omitted, whatever the
\* row held before; and an insert fails only for the pool or the server,
\* never for the omission.
C22_OmittedFieldsStoredAsDefaults ==
    [][/\ (ev'.act = "handleMessage" /\ ev'.topic = TDevice
           /\ ev'.payload \in HeartbeatPayloads) =>
            /\ ev'.handler = "handleDeviceData"
            /\ tasks' = tasks (+) SetToBag({NewTask("insertDeviceData", "mqtt",
                            ev'.payload.ID[1], None, ev'.payload.RNUM, ev'.payload.IP)})
       /\ Inserted(ev', "insertDeviceData") =>
            /\ Cardinality({r \in device_data' : r.id = ev'.task.deviceId}) = 1
            /\ \A r \in device_data' :
                  r.id = ev'.task.deviceId =>
                      /\ r.random_number = StoredRnum(ev'.task)
                      /\ r.ip_address = StoredIp(ev'.task)
            /\ \A r \in device_data' :
                  r.id # ev'.task.deviceId => r \in device_data
       /\ (ev'.act = "settle" /\ ev'.task.op = "insertDeviceData" /\ ev'.threw)
             => ev'.cause \in {"acquire", "server"}]_vars

\* a device-data insert without RNUM and IP has completed and the row of
\* the device holds the defaults
C22_Witness ==
    /\ Inserted(ev, "insertDeviceData")
    /\ ev.task.rnum = None
    /\ ev.task.ip = None
    /\ \E r \in device_data :
          r.id = ev.task.deviceId /\ r.random_number = 0
          /\ r.ip_address = "00.00.00.00"

----------------------------------------------------------------------------
(* The pool specification: more operations in flight than connections *)

PoolMessages ==
    {<<TDigital,  Obj(Some("d1"), None, None, None)>>,
     <<TAnalyser, Obj(Some("d1"), Some(<<1>>), None, None)>>}

PoolOps == {"initDatabase", "getAverageKW", "getAllAnalyzerData"}

PoolProfile == [maxTasks |-> PoolTasks, maxRows |-> PoolRows, maxTime |-> PoolTime]

NextPool ==
    \/ Tick(PoolProfile)
    \/ \E m \in PoolMessages : Receive(PoolProfile, m[1], m[2])
    \/ \E op \in PoolOps : Request(PoolProfile, op)
    \/ \E t \in BagToSet(tasks) : Acquire(t)
    \/ \E t \in BagToSet(tasks) : AcquireFail(t)
    \/ \E t \in BagToSet(tasks) : QueryOk(t)
    \/ \E t \in BagToSet(tasks) : QueryErr(t)
    \/ \E t \in BagToSet(tasks) : QueryDup(t)

SpecPool == Init /\ [][NextPool]_vars


\* tasks that hold a connection: past getConnection, at their query
AtQuery ==
    BagCardinality([t \in {u \in BagToSet(tasks) : u.pc = "query"} |-> tasks[t]])

C9_WitnessError ==
    /\ ev.act = "settle"
    /\ ev.threw
    /\ ev.cause \in {"server", "duplicate", "TypeError"}
    /\ held = AtQuery
    /\ held > 0

----------------------------------------------------------------------------
(* The aggregation specification: a roster of up to three devices *)

AggIds == {"d1", "d2", "d3"}

AggMessages ==
    ({TDevice} \X {Obj(Some(id), None, Some(7), Some("10.0.0.1")) : id \in AggIds})
    \cup ({TAnalyser} \X {Obj(Some(id), Some(<<kw>>), None, None) :
                             id \in AggIds, kw \in {1, 2}})

AggOps == {"getAverageKW"}

AggProfile == [maxTasks |-> AggTasks, maxRows |-> AggRows, maxTime |-> AggTime]

NextAgg ==
    \/ Tick(AggProfile)
    \/ \E m \in AggMessages : Receive(AggProfile, m[1], m[2])
    \/ \E op \in AggOps : Request(AggProfile, op)
    \/ \E t \in BagToSet(tasks) : Acquire(t)
    \/ \E t \in BagToSet(tasks) : AcquireFail(t)
    \/ \E t \in BagToSet(tasks) : QueryOk(t)
    \/ \E t \in BagToSet(tasks) : QueryErr(t)
    \/ \E t \in BagToSet(tasks) : QueryDup(t)

SpecAgg == Init /\ [][NextAgg]_vars

\* the roster devices that have at least one analyzer row
Reporting == {d.id : d \in {x \in device_data : \E a \in analyzer_data : a.id = x.id}}

\* the kw of the newest analyzer row of a device
LatestKw(id) ==
    LET rows == {a \in analyzer_data : a.id = id}
    IN  (CHOOSE a \in rows : \A o \in rows : o.created_at <= a.created_at).kw

RECURSIVE SumLatestKw(_)
SumLatestKw(ids) ==
    IF ids = {} THEN 0
    ELSE LET id == CHOOSE x \in ids : TRUE
         IN  LatestKw(id) + SumLatestKw(ids \ {id})

\* C10: getAverageKW is the sum of the latest kw of the roster devices that
\* have an analyzer row, divided by the number of those devices; roster
\* devices without a row and rows of devices outside the roster do not
\* count, and the result is NULL when no roster device has a row.
C10_AverageOverReportingRoster ==
    LET avg == getAverageKW.average_kw
    IN  IF Reporting = {}
        THEN avg = None
        ELSE /\ avg # None
             /\ avg[1][1] * Cardinality(Reporting)
                   = SumLatestKw(Reporting) * avg[1][2]

\* getAverageKW has answered over a roster of three devices of which two
\* have reported, one of them more than once
C10_Witness ==
    /\ ev.act = "settle"
    /\ ev.task.op = "getAverageKW"
    /\ ~ev.threw
    /\ ev.result = getAverageKW
    /\ Cardinality(device_data) = 3
    /\ Cardinality(Reporting) = 2

\* an analyzer row of a device outside the roster is stored next to a
\* reporting roster device with a different kw
C10_WitnessOutsider ==
    /\ \E a \in analyzer_data : \A d \in device_data : d.id # a.id
    /\ \E a, b \in analyzer_data : a.kw # b.kw /\ a.id \in Reporting /\ b.id \notin Reporting

----------------------------------------------------------------------------
(* The device-status specification: a roster of up to two devices, their   *)
(* digital-input rows, and getDevicesStatus over a set of state strings    *)

StatusIds == {"d1", "d2"}

StatusMessages ==
    ({TDevice} \X {Obj(Some(id), None, Some(7), Some("10.0.0.1")) : id \in StatusIds})
    \cup ({TDigital} \X {Obj(Some(id), Some(v), None, None) :
                            id \in StatusIds, v \in {<<1>>, <<0, 1>>}})

\* state vectors: sequences of <<channel, value>> pairs
StatusVectors ==
    {<<>>, << <<1, 1>> >>, << <<2, 1>> >>, << <<1, 1>>, <<2, 1>> >>, << <<9, 1>> >>}

\* the text "stateN=V&stateM=W..." of a state vector
RECURSIVE stateString(_)
stateString(vec) ==
    IF vec = <<>> THEN <<>>
    ELSE <<"state", DigitChars[vec[1][1] + 1], "=", DigitChars[vec[1][2] + 1]>>
         \o (IF Len(vec) = 1 THEN <<>> ELSE <<"&">> \o stateString(Tail(vec)))

\* state strings that are not stateN=0|1 pairs: "state1=x" and "state1"
MalformedStates == {Some(<<"state", "1", "=", "x">>), Some(<<"state", "1">>)}

StatusStates ==
    {None} \cup {Some(stateString(vec)) : vec \in StatusVectors} \cup MalformedStates

StatusProfile == [maxTasks |-> StatusTasks, maxRows |-> StatusRows, maxTime |-> StatusTime]

NextStatus ==
    \/ Tick(StatusProfile)
    \/ \E m \in StatusMessages : Receive(StatusProfile, m[1], m[2])
    \/ \E State \in StatusStates : RequestStatus(StatusProfile, State)
    \/ \E t \in BagToSet(tasks) : Acquire(t)
    \/ \E t \in BagToSet(tasks) : AcquireFail(t)
    \/ \E t \in BagToSet(tasks) : QueryOk(t)
    \/ \E t \in BagToSet(tasks) : QueryErr(t)
    \/ \E t \in BagToSet(tasks) : QueryReject(t)

SpecStatus == Init /\ [][NextStatus]_vars

\* the target a state vector names for channel n, 0 when it names none
VectorTarget(vec, n) ==
    IF \E i \in DOMAIN vec : vec[i][1] = n
    THEN vec[CHOOSE i \in DOMAIN vec :
                vec[i][1] = n /\ \A j \in DOMAIN vec : vec[j][1] = n => j <= i][2]
    ELSE 0

\* a count of the result as a number, NULL read as 0
CountOf(result, n) == IF result[n] = None THEN 0 ELSE result[n][1]

\* roster devices without any digital-input row
NoReading == {d \in device_data : \A r \in digital_inputs : r.id # d.id}

\* the latest digital-input rows of a roster device
LatestRowsOf(d) == {r \in latestPerDevice(digital_inputs) : r.id = d.id}

\* C11: for every channel n and every target value, a roster device that
\* has no digital-input row at all is counted as matching channel n: count n
\* is the number of roster devices without a row plus the number of latest
\* rows of roster devices whose ipN equals the target.
C11_VacuousMatch ==
    \A vec \in StatusVectors : \A n \in 1..DigitalWidth :
        CountOf(getDevicesStatus(Some(stateString(vec))), n)
            = Cardinality(NoReading)
              + Cardinality({r \in latestPerDevice(digital_inputs) :
                                /\ \E d \in device_data : d.id = r.id
                                /\ r.ip[n] = VectorTarget(vec, n)})

\* getDevicesStatus("state1=1") has answered count1 = 2 over a roster of two
\* devices, one whose latest row has ip1 = 1 and one without any row
C11_Witness ==
    /\ ev.act = "settle"
    /\ ev.task.op = "getDevicesStatus"
    /\ ~ev.threw
    /\ ev.task.State = Some(stateString(<< <<1, 1>> >>))
    /\ ev.result = getDevicesStatus(ev.task.State)
    /\ Cardinality(device_data) = 2
    /\ Cardinality(NoReading) = 1
    /\ \E d \in device_data : \E r \in LatestRowsOf(d) : r.ip[1] = 1
    /\ ev.result[1] = Some(2)

\* the state strings made of stateN=0|1 pairs, the empty and the absent one
WellFormedStates == {None} \cup {Some(stateString(vec)) : vec \in StatusVectors}

\* the state vector a well-formed state string encodes
VectorOf(State) ==
    IF State = None THEN <<>>
    ELSE CHOOSE vec \in StatusVectors : stateString(vec) = State[1]

\* C12: getDevicesStatus returns 9 integer counts for every state string
\* and every roster, the empty roster and the empty or absent state string
\* included; count n is the number of joined roster rows whose ipN equals
\* the target of channel n or is NULL, whatever the other channels hold, and
\* a channel the state string does not name has target 0.
C12_NineIndependentCounts ==
    (/\ ev.act = "settle"
     /\ ev.task.op = "getDevicesStatus"
     /\ ev.task.State \in WellFormedStates
     /\ ev.cause \notin {"acquire", "server"}) =>
        /\ ~ev.threw
        /\ DOMAIN ev.result = 1..DigitalWidth
        /\ \A n \in 1..DigitalWidth :
              /\ ev.result[n] # None
              /\ ev.result[n][1] =
                    Cardinality({j \in rosterLeftJoin(latestPerDevice(digital_inputs)) :
                                    \/ j.a = None
                                    \/ j.a[1].ip[n] = VectorTarget(VectorOf(ev.task.State), n)})

\* C20: every roster device is counted at most once per channel, also when
\* several of its digital-input rows share the maximum timestamp: each
\* count is at most the number of rows of device_data and equals the number
\* of roster devices that have no row or a latest row matching the target.
C20_OncePerDevice ==
    \A vec \in StatusVectors : \A n \in 1..DigitalWidth :
        LET c == getDevicesStatus(Some(stateString(vec)))[n]
        IN  c # None =>
              /\ c[1] <= Cardinality(device_data)
              /\ c[1] = Cardinality({d \in device_data :
                            \/ d \in NoReading
                            \/ \E r \in LatestRowsOf(d) :
                                  r.ip[n] = VectorTarget(vec, n)})

----------------------------------------------------------------------------
(* The read specification: the getAll and getLatest functions and          *)
(* getAverageKW over tables of up to ReadRows rows                         *)

ReadIds == {"d1", "d2"}

ReadMessages ==
    ({TDigital, TAnalyser} \X {Obj(Some(id), Some(<<1>>), None, None) : id \in ReadIds})
    \cup ({TAnalog} \X {Obj(Some("d1"), Some(<<1>>), None, None)})
    \cup ({TDevice} \X {Obj(Some(id), None, Some(7), Some("10.0.0.1")) : id \in ReadIds})

GetAllOps == {"getAllDigitalInputs", "getAllAnalyzerData",
              "getAllAnalogInputs", "getAllDeviceData"}

ReadOps == GetAllOps \cup LatestControllers \cup {"getAverageKW"}

ReadProfile == [maxTasks |-> ReadTasks, maxRows |-> ReadRows, maxTime |-> ReadTime]

NextRead ==
    \/ Tick(ReadProfile)
    \/ \E m \in ReadMessages : Receive(ReadProfile, m[1], m[2])
    \/ \E op \in ReadOps : Request(ReadProfile, op)
    \/ \E t \in BagToSet(tasks) : Acquire(t)
    \/ \E t \in BagToSet(tasks) : AcquireFail(t)
    \/ \E t \in BagToSet(tasks) : QueryOk(t)
    \/ \E t \in BagToSet(tasks) : QueryErr(t)
    \/ \E t \in BagToSet(tasks) : QueryDup(t)

SpecRead == Init /\ [][NextRead]_vars

\* the table a read function selects from
ReadTable(op) ==
    CASE op \in {"getAllDigitalInputs", "getLatestDigitalInputs"} -> digital_inputs
      [] op \in {"getAllAnalyzerData", "getLatestAnalyzerData"}   -> analyzer_data
      [] op \in {"getAllAnalogInputs", "getLatestAnalogInputs"}   -> analog_inputs
      [] op \in {"getAllDeviceData", "getLatestDeviceData"}       -> device_data

\* a read function has returned to its controller
Answered(ops) == ev.act = "settle" /\ ev.task.op \in ops /\ ~ev.threw

\* C16: getLatest of each of the four kinds yields exactly one row, a
\* newest one by timestamp, when the kind's table is non-empty, and the no
\* data signal, answered with 404, when it is empty; getAverageKW yields a
\* single numeric average, or no data when no roster device has an analyzer
\* reading.
C16_LatestOneRowOrNoData ==
    /\ Answered(LatestControllers) =>
          IF ReadTable(ev.task.op) = {}
          THEN ev.status = 404
          ELSE /\ ev.status = 200
               /\ \E r \in ReadTable(ev.task.op) :
                     /\ ev.result = <<r>>
                     /\ \A o \in ReadTable(ev.task.op) : o.created_at <= r.created_at
    /\ Answered({"getAverageKW"}) =>
          (ev.result.average_kw = None <=> Reporting = {})

\* C17: getAll of every kind returns all rows of the kind's table, none left
\* out and none repeated, newest first: of two adjacent rows the earlier
\* one's timestamp is greater than or equal to the later one's.
C17_GetAllNewestFirst ==
    Answered(GetAllOps) =>
        LET s == ev.result
            table == ReadTable(ev.task.op)
        IN  /\ Len(s) = Cardinality(table)
            /\ {s[i] : i \in DOMAIN s} = table
            /\ \A i, j \in DOMAIN s : i # j => s[i] # s[j]
            /\ \A i \in 1..(Len(s) - 1) : s[i].created_at >= s[i + 1].created_at

\* getAll has answered with three rows of two different timestamps
C17_Witness ==
    /\ Answered(GetAllOps)
    /\ Len(ev.result) = ReadRows
    /\ \E i, j \in DOMAIN ev.result : ev.result[i].created_at > ev.result[j].created_at

----------------------------------------------------------------------------
(* The transport specification: the client from connectMqtt on, against a  *)
(* broker that becomes unreachable up to MaxOutages times                  *)

InitTransport ==
    /\ digital_inputs = {}
    /\ analyzer_data = {}
    /\ analog_inputs = {}
    /\ device_data = {}
    /\ schema = TableNames
    /\ now = 0
    /\ held = 0
    /\ tasks = EmptyBag
    /\ ev = [act |-> "connectMqtt", log |-> <<"info">>]
    /\ client = connectMqtt
    /\ broker \in {[up |-> u, outages |-> 0] : u \in BOOLEAN}
    /\ process = [status |-> "running", code |-> 0, listening |-> TRUE]

\* the steps the client takes by itself
ClientStep ==
    \/ Connect
    \/ \E k \in DOMAIN MQTT_TOPICS : Suback(k)
    \/ ConnectError
    \/ Close
    \/ Wait
    \/ Reconnect

NextTransport ==
    \/ BrokerDown(MaxOutages)
    \/ BrokerUp
    \/ Connect
    \/ \E k \in DOMAIN MQTT_TOPICS : Suback(k)
    \/ ConnectError
    \/ Close
    \/ Wait
    \/ Reconnect

\* the event loop runs every pending client step, and the broker that is
\* unreachable becomes reachable again
SpecTransport ==
    InitTransport /\ [][NextTransport]_vars
    /\ WF_vars(ClientStep) /\ WF_vars(BrokerUp)

AllSubscribed == client.connected /\ client.subscribed = DOMAIN MQTT_TOPICS

\* C18: a broker error or close never ends the process; every reconnect
\* attempt is made one reconnect period of 1000 ms after the close; every
\* connect event, the first and each later one, subscribes to all four
\* patterns; and after a disconnect the client is eventually subscribed to
\* all four kinds again, the broker becoming reachable.
C18_TransportRecovers ==
    /\ []running
    /\ [][ev'.act = "reconnect" =>
             /\ client.status = "closed"
             /\ ev'.elapsed = reconnectPeriod
             /\ reconnectPeriod = 1000]_vars
    /\ [][ev'.act = "connect" =>
             /\ client'.connected
             /\ client'.requested = DOMAIN MQTT_TOPICS]_vars
    /\ [][ev'.act \in {"error", "close"} =>
             client'.status = "closed" /\ client'.elapsed = 0]_vars
    /\ (client.status = "closed") ~> AllSubscribed

\* the client has connected again after a lost connection and asks for all
\* four patterns
C18_Witness ==
    /\ ev.act = "connect"
    /\ ev.reconnect
    /\ broker.outages >= 1
    /\ client.requested = DOMAIN MQTT_TOPICS
    /\ running

\* a connection attempt has failed against an unreachable broker and the
\* process is running
C18_WitnessError ==
    /\ ev.act = "error"
    /\ client.status = "closed"
    /\ running

----------------------------------------------------------------------------
(* The startup specification: startServer from its call on *)

\* the database as startServer finds it: empty, or holding the four
\* tables of an earlier run
StartSchemas == {{}, TableNames}

StartMessages ==
    {<<TDigital, Obj(Some("d1"), Some(<<1>>), None, None)>>,
     <<TDevice, Obj(Some("d1"), None, Some(7), Some("10.0.0.1"))>>}

StartRequests == {"getLatestAnalyzerData", "getAllDeviceData"}

StartProfile == [maxTasks |-> StartTasks, maxRows |-> StartRows, maxTime |-> StartTime]

\* startServer() has been called and awaits initDatabase, which awaits
\* pool.getConnection()
InitStartup ==
    /\ digital_inputs = {}
    /\ analyzer_data = {}
    /\ analog_inputs = {}
    /\ device_data = {}
    /\ schema \in StartSchemas
    /\ now = 0
    /\ held = 0
    /\ tasks = SetToBag({NewTask("initDatabase", "startServer", "", None, None, None)})
    /\ ev = [act |-> "startServer", log |-> <<"debug", "debug", "debug">>]
    /\ client = noClient
    /\ broker = [up |-> TRUE, outages |-> 0]
    /\ process = startServer

NextStartup ==
    \/ Tick(StartProfile)
    \/ \E m \in StartMessages : Receive(StartProfile, m[1], m[2])
    \/ \E op \in StartRequests : Request(StartProfile, op)
    \/ \E t \in BagToSet(tasks) : Acquire(t)
    \/ \E t \in BagToSet(tasks) : AcquireFail(t)
    \/ \E t \in BagToSet(tasks) : QueryOk(t)
    \/ \E t \in BagToSet(tasks) : QueryErr(t)
    \/ Connect
    \/ \E k \in DOMAIN MQTT_TOPICS : Suback(k)

SpecStartup == InitStartup /\ [][NextStartup]_vars

\* the initDatabase of startServer has not settled
InitPending == \E t \in BagToSet(tasks) : t.caller = "startServer"

\* the last step was the settling of the initDatabase of startServer
InitSettled == ev.act = "settle" /\ ev.task.caller = "startServer"

\* C23: while the initDatabase of startServer is pending there is no MQTT
\* client, the server does not listen, no insert or query is in flight and
\* no row is stored; whenever there is a client, a listening server, an
\* insert or query in flight or a stored row, initDatabase has returned
\* and the four tables exist; when initDatabase returns normally the
\* client is created and the server listens; when it throws, the process
\* has exited with code 1 with no client and no listening server.
C23_StartupOrdering ==
    /\ (\/ client.status # "none"
        \/ process.listening
        \/ \E t \in BagToSet(tasks) : t.caller # "startServer"
        \/ TotalRows > 0)
          => (~InitPending /\ schema = TableNames)
    /\ InitPending =>
          (client = noClient /\ ~process.listening /\ running)
    /\ (InitSettled /\ ~ev.threw) =>
          /\ schema = TableNames
          /\ client = connectMqtt
          /\ process.listening
          /\ running
    /\ (InitSettled /\ ev.threw) =>
          /\ process.status = "exited"
          /\ process.code = 1
          /\ client = noClient
          /\ ~process.listening
          /\ tasks = EmptyBag
    /\ process.status = "exited" => (client = noClient /\ ~process.listening)

\* startup has completed, the four tables exist, and a message
\* received afterwards has been stored
C23_Witness ==
    /\ \E op \in InsertOps : Inserted(ev, op)
    /\ TotalRows > 0
    /\ schema = TableNames
    /\ process.listening
    /\ client.connected

\* initDatabase has failed after creating some of the tables and the
\* process has exited with code 1
C23_WitnessFailed ==
    /\ InitSettled
    /\ ev.threw
    /\ schema # {}
    /\ schema # TableNames
    /\ process.status = "exited"
    /\ process.code = 1

\* a query of a controller has been answered after startup
C23_WitnessQuery ==
    /\ ev.act = "settle"
    /\ ev.task.caller = "http"
    /\ process.listening
    /\ schema = TableNames

====
